---- MODULE Spec2Model ----
(***************************************************************************)
(* Dependency queries of rpmkit (src/rpmkit/rpmutils.py): the removal      *)
(* closure (_compute_removed_1, compute_removed_g, compute_removed), the   *)
(* requires dicts (_make_requires_dict), _get_leaves, the standalone probe *)
(* (_list_standalones_1_g, list_standalones),                              *)
(* list_required_rpms_not_required_by_others, and the package records:     *)
(* normalize_epoch, normalize, pcmp, find_latest, group_by_names_g,        *)
(* group_by_keys_g, find_latests and find_updates_g.                       *)
(*                                                                         *)
(* Package names are small integers so that sorted() has an order.         *)
(* Python lists that the code reads only through `in` and through ucat     *)
(* (acc, excludes, xs) are modelled by their sets of elements; the lists   *)
(* never shrink, so "the list changed" and "the set grew" differ only by   *)
(* duplicates, which no statement of the code observes.                    *)
(***************************************************************************)
EXTENDS Integers, Sequences, FiniteSets, TLC

\* ---------------------------------------------------------------- bounds
\* package names of the repeated-call and two-thread specifications
Pkgs == {1, 2, 3}

\* package names of the single-call specification
MorePkgs == {1, 2, 3, 4}

\* a graph has at most MaxEdges "a requires b" edges (self-edges included)
MaxEdges == 2

\* `removes` has at most MaxLen entries
MaxLen == 2

\* `removes` of the single-call specification has at most MaxLenFresh entries
MaxLenFresh == 3

\* a graph of the single-call specification has at most MaxEdgesFresh edges
MaxEdgesFresh == 1

\* `removes` of each of the two concurrent calls has at most MaxLenConc entries
MaxLenConc == 1

\* a graph of the stepwise traversal has at most MaxEdgesTrav edges
MaxEdgesTrav == 3

\* the stepwise traversal nests at most MaxDepth calls
MaxDepth == 5

Threads == {1, 2}

\* package names of the package database; GpgPubkey is the name of the
\* pseudo-packages that hold imported keys
Names == {1, 2, 3}

GpgPubkey == 0

\* the database of the leaf and safe-removal queries holds at most MaxSack
\* packages and MaxNeeds "requires" relations between them
MaxSack == 3

MaxNeeds == 3

\* the same for the database of the standalone queries
MaxSackSt == 3

MaxNeedsSt == 2

\* nrpms is at most MaxBudget
MaxBudget == 3

\* the databases and budgets on which calls of list_standalones are compared
MaxSackMo == 3

MaxNeedsMo == 1

MaxBudgetMo == 2

\* the same three bounds for the stepwise standalone probe
MaxSackPr == 2

MaxNeedsPr == 2

MaxBudgetPr == 3

\* ------------------------------------------------------- data and helpers
\* rreqs[p] = the packages that require p (the reversed requires dict);
\* an edge <<a, b>> reads "a requires b".
RreqsOf(P, es) == [p \in P |-> {a \in P : <<a, p>> \in es}]

GraphsOver(P, n) == {RreqsOf(P, es) : es \in {s \in SUBSET (P \X P) : Cardinality(s) <= n}}

RECURSIVE SeqsUpTo(_, _)
SeqsUpTo(P, n) ==
    IF n = 0 THEN {<<>>}
    ELSE LET shorter == SeqsUpTo(P, n - 1)
         IN  shorter \cup {Append(s, p) : s \in {q \in shorter : Len(q) = n - 1}, p \in P}

Elems(s) == {s[k] : k \in 1..Len(s)}

\* rreqs.get(name, [])
Get(d, name) == IF name \in DOMAIN d THEN d[name] ELSE {}

\* sorted(S) for a collection of distinct names
RECURSIVE sorted(_)
sorted(S) ==
    IF S = {} THEN <<>>
    ELSE LET m == CHOOSE x \in S : \A y \in S : x <= y
         IN  <<m>> \o sorted(S \ {m})

\* ucat of the lists a generator has yielded: the union of their elements.
\* `out` is what the consumer has collected so far, `ys` the list yielded now.
ucat(out, ys) == out \cup ys

\* ------------------------------------------------------ _compute_removed_1
\* removes_next that walks the requires direction as well as requiredBy
removes_next_bothways(remove, g, acc) ==
    sorted({p \in DOMAIN g : (p \in Get(g, remove) \/ remove \in Get(g, p)) /\ p \notin acc})

\* removes_next without the `if p not in acc` filter
removes_next_unfiltered(remove, g, acc) == sorted(Get(g, remove))

\* removes_next = sorted(p for p in rreqs.get(remove, []) if p not in acc)
removes_next(remove, g, acc) == sorted({p \in Get(g, remove) : p \notin acc})

\* _compute_removed_1 without the recursion: direct requirers only
compute_removed_1_shallow(remove, g, acc) == acc \cup Get(g, remove)

RECURSIVE compute_removed_1(_, _, _), extend_each(_, _, _)
\* for r in removes_next:
\*     acc.extend(x for x in _compute_removed_1(r, rreqs, acc + [r]) if x not in acc)
\* The list of names to visit is fixed before the loop; acc grows inside it.
extend_each(rs, g, acc) ==
    IF rs = <<>> THEN acc
    ELSE extend_each(Tail(rs), g,
                     acc \cup compute_removed_1(Head(rs), g, acc \cup {Head(rs)}))

compute_removed_1(remove, g, acc) == extend_each(removes_next(remove, g, acc), g, acc)

\* --------------------------------------------------------- compute_removed_g
\* the loop body without the test of line 704: every entry outside excludes
\* is accepted
loop_body_unchecked(r, g, acc, excludes) ==
    IF r \in excludes
    THEN [kind |-> "skip", acc |-> acc, excludes |-> excludes]
    ELSE LET xs == compute_removed_1(r, g, acc \cup {r})
         IN  [kind |-> "accept", acc |-> acc \cup {r} \cup xs, excludes |-> excludes]

\* the loop body with excludes.append(r) in place of excludes.extend([r] + xs)
loop_body_entry_only(r, g, acc, excludes) ==
    IF r \in excludes
    THEN [kind |-> "skip", acc |-> acc, excludes |-> excludes]
    ELSE LET xs == compute_removed_1(r, g, acc \cup {r})
         IN  IF xs \cap excludes # {}
             THEN [kind |-> "veto", acc |-> acc, excludes |-> excludes \cup {r}]
             ELSE [kind |-> "accept", acc |-> acc \cup {r} \cup xs,
                   excludes |-> excludes]

\* the loop body with `excludes = [r] + xs` in place of excludes.extend
loop_body_replacing(r, g, acc, excludes) ==
    IF r \in excludes
    THEN [kind |-> "skip", acc |-> acc, excludes |-> excludes]
    ELSE LET xs == compute_removed_1(r, g, acc \cup {r})
         IN  IF xs \cap excludes # {}
             THEN [kind |-> "veto", acc |-> acc, excludes |-> {r} \cup xs]
             ELSE [kind |-> "accept", acc |-> acc \cup {r} \cup xs,
                   excludes |-> excludes]

\* One iteration of `for r in removes` on the lists acc and excludes.
\* kind says which branch ran; acc/excludes are the lists after it.
loop_body(r, g, acc, excludes) ==
    IF r \in excludes
    THEN [kind |-> "skip", acc |-> acc, excludes |-> excludes]
    ELSE LET xs == compute_removed_1(r, g, acc \cup {r})
         IN  IF xs \cap excludes # {}
             THEN [kind |-> "veto", acc |-> acc,
                   excludes |-> excludes \cup {r} \cup xs]
             ELSE [kind |-> "accept", acc |-> acc \cup {r} \cup xs,
                   excludes |-> excludes]

\* compute_removed(removes, rreqs=g, acc=acc, excludes=excludes) run to the
\* end on lists nobody else touches: the lists after the call and the result.
RECURSIVE run_from(_, _, _, _, _)
run_from(rs, g, acc, excludes, out) ==
    IF rs = <<>> THEN [acc |-> acc, excludes |-> excludes, result |-> out]
    ELSE LET b == loop_body(Head(rs), g, acc, excludes)
         IN  run_from(Tail(rs), g, b.acc, b.excludes,
                      IF b.kind = "accept" THEN ucat(out, b.acc) ELSE out)

compute_removed(rs, g, acc, excludes) == run_from(rs, g, acc, excludes, {})

\* ------------------------------------------------------------------ state
VARIABLES
    rreqs,        \* the reversed requires dict every call is given
    d_acc,        \* the list object that is compute_removed's default `acc`
    d_excludes,   \* the list object that is compute_removed's default `excludes`
    pc,           \* per thread: where its call stands
    removes,      \* per thread: the `removes` argument
    idx,          \* per thread: how many entries the for loop has consumed
    exarg,        \* per thread: "default" or "own": the list bound to `excludes`
    own,          \* per thread: the caller's own excludes list
    ex_in,        \* per thread: the elements `excludes` held when the call began
    acc_in,       \* per thread: the elements `acc` held when the call began
    xs,           \* per thread: the local xs of compute_removed_g
    out,          \* per thread: what ucat has collected / returned
    trav,         \* "off", "running" or "done": a stepwise run of _compute_removed_1
    targ,         \* the arguments (remove, acc) of that run
    stack,        \* its call stack, innermost frame last
    ret,          \* the list it returned
    sack,         \* the installed packages as yum lists them: their names
    needs,        \* <<i, j>>: package sack[i] requires package sack[j]
    pubkey,       \* TRUE when the RPM database also holds a gpg-pubkey entry
    reqs,         \* the requires dict, once make_requires_dict has built it
    memo,         \* which of "reqs" and "rreqs" the memoized builder holds
    query,        \* the last call made on the package database
    result,       \* what that call returned
    probe,        \* "off", "running" or "done": a stepwise run of the standalone probe
    frames,       \* its call stack, innermost generator last
    yielded       \* the names it has yielded so far

vars == <<rreqs, d_acc, d_excludes, pc, removes, idx, exarg, own, ex_in, acc_in, xs, out,
          trav, targ, stack, ret,
          sack, needs, pubkey, reqs, memo, query, result, probe, frames, yielded>>

travvars == <<trav, targ, stack, ret>>

callvars == <<d_acc, d_excludes, pc, removes, idx, exarg, own, ex_in, acc_in, xs, out>>

dbvars == <<sack, needs, pubkey>>

probevars == <<probe, frames, yielded>>

queryvars == <<dbvars, reqs, memo, query, result, probevars>>

\* the list currently bound to the parameter `excludes` of thread t
excludes(t) == IF exarg[t] = "default" THEN d_excludes ELSE own[t]

\* a process that has imported the module and called nothing yet: the default
\* lists are the empty lists of the def statements (lines 680 and 713)
NoCallYet ==
    /\ d_acc = {}
    /\ d_excludes = {}
    /\ pc = [t \in Threads |-> "idle"]
    /\ removes = [t \in Threads |-> <<>>]
    /\ idx = [t \in Threads |-> 0]
    /\ exarg = [t \in Threads |-> "default"]
    /\ own = [t \in Threads |-> {}]
    /\ ex_in = [t \in Threads |-> {}]
    /\ acc_in = [t \in Threads |-> {}]
    /\ xs = [t \in Threads |-> {}]
    /\ out = [t \in Threads |-> {}]

\* no stepwise run of _compute_removed_1 is under way
NoTraversal ==
    /\ trav = "off"
    /\ targ = [remove |-> 0, acc |-> {}]
    /\ stack = <<>>
    /\ ret = {}

\* no stepwise run of _list_standalones_1_g is under way
NoProbe ==
    /\ probe = "off"
    /\ frames = <<>>
    /\ yielded = <<>>

\* nothing has been asked of the package database yet: the memoized builder
\* holds no dict
NoQueryYet ==
    /\ reqs = <<>>
    /\ memo = {}
    /\ query = [fn |-> "none"]
    /\ result = {}

\* the calls on an explicit rreqs read no package database
NoDatabase ==
    /\ sack = <<>>
    /\ needs = {}
    /\ pubkey = FALSE
    /\ NoQueryYet
    /\ NoProbe

Init ==
    /\ rreqs \in GraphsOver(Pkgs, MaxEdges)
    /\ NoCallYet
    /\ NoTraversal
    /\ NoDatabase

\* compute_removed(rs, rreqs=rreqs): acc and excludes take their defaults
CallDefault(t, rs) ==
    /\ pc[t] = "idle"
    /\ pc' = [pc EXCEPT ![t] = "loop"]
    /\ removes' = [removes EXCEPT ![t] = rs]
    /\ idx' = [idx EXCEPT ![t] = 0]
    /\ exarg' = [exarg EXCEPT ![t] = "default"]
    /\ own' = [own EXCEPT ![t] = {}]
    /\ ex_in' = [ex_in EXCEPT ![t] = d_excludes]
    /\ acc_in' = [acc_in EXCEPT ![t] = d_acc]
    /\ xs' = [xs EXCEPT ![t] = {}]
    /\ out' = [out EXCEPT ![t] = {}]
    /\ UNCHANGED <<queryvars, rreqs, d_acc, d_excludes, travvars>>

\* compute_removed(rs, rreqs=rreqs, excludes=es) as fake_yum.py calls it:
\* acc takes its default, excludes is the caller's list
CallExcludes(t, rs, es) ==
    /\ pc[t] = "idle"
    /\ pc' = [pc EXCEPT ![t] = "loop"]
    /\ removes' = [removes EXCEPT ![t] = rs]
    /\ idx' = [idx EXCEPT ![t] = 0]
    /\ exarg' = [exarg EXCEPT ![t] = "own"]
    /\ own' = [own EXCEPT ![t] = es]
    /\ ex_in' = [ex_in EXCEPT ![t] = es]
    /\ acc_in' = [acc_in EXCEPT ![t] = d_acc]
    /\ xs' = [xs EXCEPT ![t] = {}]
    /\ out' = [out EXCEPT ![t] = {}]
    /\ UNCHANGED <<queryvars, rreqs, d_acc, d_excludes, travvars>>

\* the entry the for loop of thread t is at
entry(t) == removes[t][idx[t] + 1]

\* lines 698-710, one whole iteration of `for r in removes` including the
\* consumer's read of the yielded list: skip, veto or accept the entry
Iterate(t) ==
    /\ pc[t] = "loop"
    /\ idx[t] < Len(removes[t])
    /\ LET b == loop_body(entry(t), rreqs, d_acc, excludes(t))
       IN  /\ d_acc' = b.acc
           /\ IF exarg[t] = "default"
              THEN d_excludes' = b.excludes /\ own' = own
              ELSE own' = [own EXCEPT ![t] = b.excludes] /\ d_excludes' = d_excludes
           /\ out' = [out EXCEPT ![t] = IF b.kind = "accept" THEN ucat(@, b.acc) ELSE @]
    /\ idx' = [idx EXCEPT ![t] = @ + 1]
    /\ UNCHANGED <<queryvars, rreqs, pc, removes, exarg, ex_in, acc_in, xs, travvars>>

\* The same iteration in the three steps between which another thread can
\* run, for an entry that is neither skipped nor vetoed.
\* lines 698-702: r is not in excludes; xs = compute_removed_1(r, rreqs, acc + [r]).
\* acc + [r] is a new list, so the traversal works on a private copy of acc
Resolve(t) ==
    /\ pc[t] = "loop"
    /\ idx[t] < Len(removes[t])
    /\ entry(t) \notin excludes(t)
    /\ xs' = [xs EXCEPT ![t] = compute_removed_1(entry(t), rreqs, d_acc \cup {entry(t)})]
    /\ pc' = [pc EXCEPT ![t] = "resolved"]
    /\ UNCHANGED <<queryvars, rreqs, d_acc, d_excludes, removes, idx, exarg, own, ex_in, acc_in, out, travvars>>

\* lines 704-709: no x of xs is in excludes; acc.extend([r] + xs)
Extend(t) ==
    /\ pc[t] = "resolved"
    /\ xs[t] \cap excludes(t) = {}
    /\ d_acc' = d_acc \cup {entry(t)} \cup xs[t]
    /\ pc' = [pc EXCEPT ![t] = "yield"]
    /\ UNCHANGED <<queryvars, rreqs, d_excludes, removes, idx, exarg, own, ex_in, acc_in, xs, out, travvars>>

\* line 710: yield acc; ucat reads the yielded list (the list acc itself)
Yield(t) ==
    /\ pc[t] = "yield"
    /\ out' = [out EXCEPT ![t] = ucat(@, d_acc)]
    /\ idx' = [idx EXCEPT ![t] = @ + 1]
    /\ pc' = [pc EXCEPT ![t] = "loop"]
    /\ UNCHANGED <<queryvars, rreqs, d_acc, d_excludes, removes, exarg, own, ex_in, acc_in, xs, travvars>>

\* the for loop is exhausted: compute_removed returns what ucat collected
Return(t) ==
    /\ pc[t] = "loop"
    /\ idx[t] = Len(removes[t])
    /\ pc' = [pc EXCEPT ![t] = "returned"]
    /\ UNCHANGED <<queryvars, rreqs, d_acc, d_excludes, removes, idx, exarg, own, ex_in, acc_in, xs, out, travvars>>

\* the caller drops the result and its lists and is ready for another call
Discard(t) ==
    /\ pc[t] = "returned"
    /\ pc' = [pc EXCEPT ![t] = "idle"]
    /\ removes' = [removes EXCEPT ![t] = <<>>]
    /\ idx' = [idx EXCEPT ![t] = 0]
    /\ exarg' = [exarg EXCEPT ![t] = "default"]
    /\ own' = [own EXCEPT ![t] = {}]
    /\ ex_in' = [ex_in EXCEPT ![t] = {}]
    /\ acc_in' = [acc_in EXCEPT ![t] = {}]
    /\ xs' = [xs EXCEPT ![t] = {}]
    /\ out' = [out EXCEPT ![t] = {}]
    /\ UNCHANGED <<queryvars, rreqs, d_acc, d_excludes, travvars>>

\* One process calling compute_removed again and again, one call at a time.
Next ==
    \/ \E rs \in SeqsUpTo(Pkgs, MaxLen) : CallDefault(1, rs)
    \/ \E rs \in SeqsUpTo(Pkgs, MaxLen), es \in SUBSET Pkgs : CallExcludes(1, rs, es)
    \/ Iterate(1)
    \/ Return(1)
    \/ Discard(1)

Spec == Init /\ [][Next]_vars

TypeOK ==
    /\ d_acc \subseteq Pkgs
    /\ d_excludes \subseteq Pkgs
    /\ \A t \in Threads : out[t] \subseteq Pkgs

\* ------------------------------------------- a single call on fresh lists
\* compute_removed(rs, rreqs=rreqs, acc=[], excludes=es), the whole call:
\* acc is a new empty list and es the caller's list, so the call reads and
\* writes no list another call can reach.
CallFresh(t, rs, es) ==
    /\ pc[t] = "idle"
    /\ LET c == compute_removed(rs, rreqs, {}, es)
       IN  /\ out' = [out EXCEPT ![t] = c.result]
           /\ own' = [own EXCEPT ![t] = c.excludes]
    /\ pc' = [pc EXCEPT ![t] = "returned"]
    /\ removes' = [removes EXCEPT ![t] = rs]
    /\ idx' = [idx EXCEPT ![t] = Len(rs)]
    /\ exarg' = [exarg EXCEPT ![t] = "own"]
    /\ ex_in' = [ex_in EXCEPT ![t] = es]
    /\ acc_in' = [acc_in EXCEPT ![t] = {}]
    /\ UNCHANGED <<queryvars, rreqs, d_acc, d_excludes, xs, travvars>>

InitFresh ==
    /\ rreqs \in GraphsOver(MorePkgs, MaxEdgesFresh)
    /\ NoCallYet
    /\ NoTraversal
    /\ NoDatabase

NextFresh ==
    \E rs \in SeqsUpTo(MorePkgs, MaxLenFresh), es \in SUBSET MorePkgs : CallFresh(1, rs, es)

SpecFresh == InitFresh /\ [][NextFresh]_vars

\* --------------------------------------------- two calls in two threads
\* Two threads of one process each call compute_removed(rs, rreqs=rreqs) once
\* and their steps interleave. Both bind `excludes` to the default list, which
\* is empty and grows only in a veto, so no entry is skipped or vetoed
\* (ConcExcludesEmpty) and the guards of Resolve and Extend never block.
NextConc ==
    \E t \in Threads :
        \/ \E rs \in SeqsUpTo(Pkgs, MaxLenConc) : CallDefault(t, rs)
        \/ Resolve(t)
        \/ Extend(t)
        \/ Yield(t)
        \/ Return(t)

SpecConc == Init /\ [][NextConc]_vars

\* ------------------------------------- _compute_removed_1, step by step
\* A frame of _compute_removed_1: its argument remove, its list acc and the
\* part of removes_next the for loop has not reached yet.
Frame(remove, g, acc) ==
    [remove |-> remove, acc |-> acc, todo |-> removes_next(remove, g, acc)]

Top == stack[Len(stack)]

\* lines 668-669: the loop takes the next r and calls
\* _compute_removed_1(r, rreqs, acc + [r])
Descend ==
    /\ trav = "running"
    /\ Top.todo # <<>>
    /\ Len(stack) < MaxDepth
    /\ LET r == Head(Top.todo)
       IN  stack' = Append([stack EXCEPT ![Len(stack)].todo = Tail(@)],
                           Frame(r, rreqs, Top.acc \cup {r}))
    /\ UNCHANGED <<queryvars, rreqs, callvars, trav, targ, ret>>

\* line 672 in an inner call: return acc; the caller (lines 669-670) extends
\* its own acc with the returned names it does not hold yet
Ascend ==
    /\ trav = "running"
    /\ Top.todo = <<>>
    /\ Len(stack) > 1
    /\ stack' = [SubSeq(stack, 1, Len(stack) - 1)
                    EXCEPT ![Len(stack) - 1].acc = @ \cup Top.acc]
    /\ UNCHANGED <<queryvars, rreqs, callvars, trav, targ, ret>>

\* line 672 in the outermost call
Finish ==
    /\ trav = "running"
    /\ Top.todo = <<>>
    /\ Len(stack) = 1
    /\ ret' = Top.acc
    /\ stack' = <<>>
    /\ trav' = "done"
    /\ UNCHANGED <<queryvars, rreqs, callvars, targ>>

\* line 702: compute_removed_1(r, rreqs, acc + [r]) has just been entered,
\* acc being any list a caller of compute_removed may pass
InitTrav ==
    /\ rreqs \in GraphsOver(Pkgs, MaxEdgesTrav)
    /\ NoCallYet
    /\ trav = "running"
    /\ \E r \in Pkgs, acc \in SUBSET Pkgs :
          /\ targ = [remove |-> r, acc |-> acc \cup {r}]
          /\ stack = <<Frame(r, rreqs, acc \cup {r})>>
    /\ ret = {}
    /\ NoDatabase

NextTrav == Descend \/ Ascend \/ Finish

\* a call that has started keeps running: nothing in the interpreter suspends it
SpecTrav == InitTrav /\ [][NextTrav]_vars /\ WF_vars(NextTrav)

\* ------------------------------------------------ the package database
\* What yum reports of an RPM database: the installed packages (sack[i] is the
\* name of package i; several packages may carry one name, as the versions
\* of kernel and the two architectures of a multilib library do) and which
\* package requires which. yum lists the packages in no specified order and
\* they are told apart by index only, so sacks listed in name order cover
\* every database up to renumbering.
Sacks(n) == {s \in SeqsUpTo(Names, n) : \A k \in 1..(Len(s) - 1) : s[k] <= s[k + 1]}

Databases(n, m) ==
    UNION {{[sack |-> s, needs |-> nd] :
                nd \in {e \in SUBSET ((1..Len(s)) \X (1..Len(s))) : Cardinality(e) <= m}} :
           s \in Sacks(n)}

\* X.required_packages(): the packages X requires (yum)
required_packages(nd, i) == {j \in {x[2] : x \in nd} : <<i, j>> \in nd}

\* X.requiring_packages(): the packages that require X (yum)
requiring_packages(nd, i) == {j \in {x[1] : x \in nd} : <<j, i>> \in nd}

\* sorted(x.name for x in ...): one name per package, equal names repeated
RECURSIVE sorted_names(_, _)
sorted_names(sk, I) ==
    IF I = {} THEN <<>>
    ELSE LET i == CHOOSE a \in I : \A b \in I : sk[a] < sk[b] \/ (sk[a] = sk[b] /\ a <= b)
         IN  <<sk[i]>> \o sorted_names(sk, I \ {i})

\* list_reqs(p) of _make_requires_dict
list_reqs(sk, nd, reversed, i) ==
    sorted_names(sk, IF reversed THEN requiring_packages(nd, i) ELSE required_packages(nd, i))

\* dict((p.name, list_reqs(p)) for p in list_installed(root)): of several
\* pairs with one key the dict keeps the last
make_requires_dict(sk, nd, reversed) ==
    [n \in Elems(sk) |->
        LET last == CHOOSE i \in 1..Len(sk) :
                        sk[i] = n /\ \A j \in 1..Len(sk) : sk[j] = n => j <= i
        IN  list_reqs(sk, nd, reversed, last)]

make_reversed_requires_dict(sk, nd) == make_requires_dict(sk, nd, TRUE)

\* [p["name"] for p in list_installed_rpms(root)]: the names in the RPM
\* database itself, in sorted order; gpg-pubkey entries are in the database
\* but not in yum's list
all_rpms(sk, pk) ==
    (IF pk THEN <<GpgPubkey>> ELSE <<>>) \o sorted_names(sk, 1..Len(sk))

\* d.get(name, []) on a dict of lists
GetList(d, name) == IF name \in DOMAIN d THEN d[name] ELSE <<>>

\* RM.memoize: the first call computes the value, later calls return it
memoized(key, cached, value) == IF key \in memo THEN cached ELSE value

\* ------------------------------------------------------------ _get_leaves
\* get_leaves without the `if not ps` filter
get_leaves_unfiltered(rr) == DOMAIN rr

\* [r for r, ps in rreqs.iteritems() if not ps]
get_leaves(rr) == {r \in DOMAIN rr : rr[r] = <<>>}

\* -------------------------------------------------- _list_standalones_1_g
RECURSIVE list_standalones_1_g(_, _, _, _, _), probe_each(_, _, _, _, _)
\* for p in ps: for x in _list_standalones_1_g(p, reqs, rreqs, nrpms - 1, excludes): yield x
probe_each(ps, rq, rr, nrpms, es) ==
    IF ps = <<>> THEN <<>>
    ELSE list_standalones_1_g(Head(ps), rq, rr, nrpms - 1, es)
            \o probe_each(Tail(ps), rq, rr, nrpms, es)

\* the probe that does not look at what the name itself requires
list_standalones_1_g_unrequiring(name, rq, rr, nrpms, es) ==
    IF name \in es THEN <<>>
    ELSE LET ps == GetList(rr, name)
         IN  IF ps # <<>>
             THEN IF \E e \in es : e \in Elems(ps) THEN <<>>
                  ELSE IF Len(ps) >= nrpms THEN <<>>
                  ELSE probe_each(ps, rq, rr, nrpms, es)
             ELSE <<name>>

\* the probe without the test for excluded requirers (lines 555-557)
list_standalones_1_g_through_excluded(name, rq, rr, nrpms, es) ==
    IF name \in es THEN <<>>
    ELSE LET ps == GetList(rr, name)
         IN  IF ps # <<>>
             THEN IF Len(ps) >= nrpms THEN <<>>
                  ELSE probe_each(ps, rq, rr, nrpms, es)
             ELSE LET qs == GetList(rq, name)
                  IN  IF qs = <<>> \/ Len(qs) < nrpms THEN <<name>> ELSE <<>>

\* the probe with the test for an excluded name (line 549) inverted
list_standalones_1_g_inverted(name, rq, rr, nrpms, es) ==
    IF name \notin es THEN <<>>
    ELSE LET ps == GetList(rr, name)
         IN  IF ps # <<>>
             THEN IF \E e \in es : e \in Elems(ps) THEN <<>>
                  ELSE IF Len(ps) >= nrpms THEN <<>>
                  ELSE probe_each(ps, rq, rr, nrpms, es)
             ELSE LET qs == GetList(rq, name)
                  IN  IF qs = <<>> \/ Len(qs) < nrpms THEN <<name>> ELSE <<>>

\* the names the generator yields, in order
list_standalones_1_g(name, rq, rr, nrpms, es) ==
    IF name \in es THEN <<>>
    ELSE LET ps == GetList(rr, name)
         IN  IF ps # <<>>
             THEN IF \E e \in es : e \in Elems(ps) THEN <<>>
                  ELSE IF Len(ps) >= nrpms THEN <<>>
                  ELSE probe_each(ps, rq, rr, nrpms, es)
             ELSE LET qs == GetList(rq, name)
                  IN  IF qs = <<>> \/ Len(qs) < nrpms THEN <<name>> ELSE <<>>

\* list_standalones_g / list_standalones: the probe from every installed name
RECURSIVE list_standalones(_, _, _, _, _)
list_standalones(rs, rq, rr, nrpms, es) ==
    IF rs = <<>> THEN <<>>
    ELSE list_standalones_1_g(Head(rs), rq, rr, nrpms, es)
            \o list_standalones(Tail(rs), rq, rr, nrpms, es)

\* ------------------------------ list_required_rpms_not_required_by_others
\* get_cs without the test that every requirer of r is seen
get_cs_greedy(p, rq, rr, seen) ==
    {r \in Elems(GetList(rq, p)) : r \notin (seen \cup {p})}

\* get_cs(p, seen): p joins seen; the packages p requires that are not seen
\* and whose requirers are all seen
get_cs(p, rq, rr, seen) ==
    {r \in Elems(GetList(rq, p)) :
        r \notin (seen \cup {p}) /\ Elems(GetList(rr, r)) \subseteq (seen \cup {p})}

\* the while loop: targets = ucat(get_cs(p, result) for p in targets);
\* result += targets, until targets is empty. Every p of targets is in
\* result already, so get_cs adds nothing to result inside one round.
RECURSIVE grow(_, _, _, _)
grow(targets, rq, rr, res) ==
    LET next == UNION {get_cs(p, rq, rr, res) : p \in targets}
    IN  IF next = {} THEN res ELSE grow(next, rq, rr, res \cup next)

list_required_rpms_not_required_by_others(rpmname, rq, rr) ==
    IF ~(Elems(GetList(rr, rpmname)) \subseteq {rpmname})
    THEN {}
    ELSE grow({rpmname}, rq, rr, {rpmname})

\* ------------------------------------------- queries on a package database
\* the dicts a query works on: built now, or taken from the memoized builder
the_reqs == memoized("reqs", reqs, make_requires_dict(sack, needs, FALSE))

the_rreqs == memoized("rreqs", rreqs, make_reversed_requires_dict(sack, needs))

\* make_requires_dict(root, reversed)
MakeRequiresDict(reversed) ==
    /\ reqs' = IF reversed THEN reqs ELSE the_reqs
    /\ rreqs' = IF reversed THEN the_rreqs ELSE rreqs
    /\ memo' = memo \cup {IF reversed THEN "rreqs" ELSE "reqs"}
    /\ query' = [fn |-> "make_requires_dict", reversed |-> reversed]
    /\ result' = IF reversed THEN the_rreqs ELSE the_reqs
    /\ UNCHANGED <<dbvars, probevars, callvars, travvars>>

\* get_leaves(root)
GetLeaves ==
    /\ rreqs' = the_rreqs
    /\ memo' = memo \cup {"rreqs"}
    /\ query' = [fn |-> "get_leaves"]
    /\ result' = get_leaves(the_rreqs)
    /\ UNCHANGED <<dbvars, reqs, probevars, callvars, travvars>>

\* list_required_rpms_not_required_by_others(rpmname, root)
SafeRemoval(rpmname) ==
    /\ reqs' = the_reqs
    /\ rreqs' = the_rreqs
    /\ memo' = {"reqs", "rreqs"}
    /\ query' = [fn |-> "list_required_rpms_not_required_by_others", rpmname |-> rpmname]
    /\ result' = list_required_rpms_not_required_by_others(rpmname, the_reqs, the_rreqs)
    /\ UNCHANGED <<dbvars, probevars, callvars, travvars>>

\* list_standalones(root, nrpms, excludes)
ListStandalones(nrpms, es) ==
    /\ reqs' = the_reqs
    /\ rreqs' = the_rreqs
    /\ memo' = {"reqs", "rreqs"}
    /\ query' = [fn |-> "list_standalones", nrpms |-> nrpms, excludes |-> es]
    /\ result' = list_standalones(all_rpms(sack, pubkey), the_reqs, the_rreqs, nrpms, es)
    /\ UNCHANGED <<dbvars, probevars, callvars, travvars>>

\* a process that has imported the module, on some RPM database
InitOn(dbs) ==
    /\ \E db \in dbs : sack = db.sack /\ needs = db.needs
    /\ pubkey \in BOOLEAN
    /\ rreqs = <<>>
    /\ NoQueryYet
    /\ NoProbe
    /\ NoCallYet
    /\ NoTraversal

InitDb == InitOn(Databases(MaxSack, MaxNeeds))

NextDb ==
    \/ \E reversed \in BOOLEAN : MakeRequiresDict(reversed)
    \/ GetLeaves
    \/ \E rpmname \in Names : SafeRemoval(rpmname)

SpecDb == InitDb /\ [][NextDb]_vars

InitStand == InitOn(Databases(MaxSackSt, MaxNeedsSt))

\* one call of list_standalones in a fresh process
NextStand ==
    \E nrpms \in 1..MaxBudget, es \in SUBSET Names :
        query.fn = "none" /\ ListStandalones(nrpms, es)

SpecStand == InitStand /\ [][NextStand]_vars

\* the same call on databases of fewer requirements, where its result is
\* compared with those of the neighbouring budgets and excludes
InitMono == InitOn(Databases(MaxSackMo, MaxNeedsMo))

NextMono ==
    \E nrpms \in 1..MaxBudgetMo, es \in SUBSET Names :
        query.fn = "none" /\ ListStandalones(nrpms, es)

SpecMono == InitMono /\ [][NextMono]_vars

\* --------------------------------- _list_standalones_1_g, step by step
\* A generator of _list_standalones_1_g: its arguments name and nrpms, where
\* it stands ("start": nothing of its body has run; "loop": in the for loop
\* of line 564) and the part of ps the loop has not reached yet.
\* the generator line 565 creates for a requirer p, budget unchanged
ProbeChild_samebudget(p, caller) ==
    [name |-> p, nrpms |-> caller.nrpms, pc |-> "start", todo |-> <<>>]

\* the generator line 565 creates for a requirer p, budget 2 smaller
ProbeChild_twoless(p, caller) ==
    [name |-> p, nrpms |-> caller.nrpms - 2, pc |-> "start", todo |-> <<>>]

\* the generator line 565 creates for a requirer p
ProbeChild(p, caller) ==
    [name |-> p, nrpms |-> caller.nrpms - 1, pc |-> "start", todo |-> <<>>]

Probing == frames[Len(frames)]

\* the innermost generator is exhausted: its caller's loop goes on, or the
\* outermost generator ends
Exhausted ==
    /\ frames' = SubSeq(frames, 1, Len(frames) - 1)
    /\ probe' = IF Len(frames) = 1 THEN "done" ELSE "running"

\* lines 549-562 and 568-571 when nothing is yielded: the name is excluded,
\* has an excluded requirer, has nrpms requirers or more, or has no requirer
\* and requires nrpms packages or more
ProbeReject ==
    /\ probe = "running"
    /\ Probing.pc = "start"
    /\ LET ps == GetList(rreqs, Probing.name)
           qs == GetList(reqs, Probing.name)
       IN  \/ Probing.name \in query.excludes
           \/ ps # <<>> /\ \E e \in query.excludes : e \in Elems(ps)
           \/ ps # <<>> /\ Len(ps) >= Probing.nrpms
           \/ ps = <<>> /\ ~(qs = <<>> \/ Len(qs) < Probing.nrpms)
    /\ Exhausted
    /\ UNCHANGED <<rreqs, reqs, memo, query, result, yielded, dbvars, callvars, travvars>>

\* the yield without the test of line 570
ProbeYield_unrequiring ==
    /\ probe = "running"
    /\ Probing.pc = "start"
    /\ Probing.name \notin query.excludes
    /\ GetList(rreqs, Probing.name) = <<>>
    /\ yielded' = Append(yielded, Probing.name)
    /\ Exhausted
    /\ UNCHANGED <<rreqs, reqs, memo, query, result, dbvars, callvars, travvars>>

\* lines 568-573: no requirer and fewer than nrpms requirements: yield name,
\* which every enclosing generator yields on (line 567)
ProbeYield ==
    /\ probe = "running"
    /\ Probing.pc = "start"
    /\ Probing.name \notin query.excludes
    /\ GetList(rreqs, Probing.name) = <<>>
    /\ LET qs == GetList(reqs, Probing.name)
       IN  qs = <<>> \/ Len(qs) < Probing.nrpms
    /\ yielded' = Append(yielded, Probing.name)
    /\ Exhausted
    /\ UNCHANGED <<rreqs, reqs, memo, query, result, dbvars, callvars, travvars>>

\* lines 553-564: between 1 and nrpms - 1 requirers, none excluded: enter
\* the for loop over them
ProbeExpand ==
    /\ probe = "running"
    /\ Probing.pc = "start"
    /\ Probing.name \notin query.excludes
    /\ LET ps == GetList(rreqs, Probing.name)
       IN  /\ ps # <<>>
           /\ ~(\E e \in query.excludes : e \in Elems(ps))
           /\ Len(ps) < Probing.nrpms
           /\ frames' = [frames EXCEPT ![Len(frames)] = [@ EXCEPT !.pc = "loop", !.todo = ps]]
    /\ UNCHANGED <<rreqs, reqs, memo, query, result, probe, yielded, dbvars, callvars, travvars>>

\* lines 564-566: the loop takes the next requirer p and iterates over
\* _list_standalones_1_g(p, reqs, rreqs, nrpms - 1, excludes)
ProbeDescend ==
    /\ probe = "running"
    /\ Probing.pc = "loop"
    /\ Probing.todo # <<>>
    /\ frames' = Append([frames EXCEPT ![Len(frames)].todo = Tail(@)],
                        ProbeChild(Head(Probing.todo), Probing))
    /\ UNCHANGED <<rreqs, reqs, memo, query, result, probe, yielded, dbvars, callvars, travvars>>

\* the for loop of line 564 is exhausted
ProbeReturn ==
    /\ probe = "running"
    /\ Probing.pc = "loop"
    /\ Probing.todo = <<>>
    /\ Exhausted
    /\ UNCHANGED <<rreqs, reqs, memo, query, result, yielded, dbvars, callvars, travvars>>

\* line 589: list_standalones_g starts the probe of an installed name r on
\* the dicts built from the database
InitProbe ==
    /\ \E db \in Databases(MaxSackPr, MaxNeedsPr) : sack = db.sack /\ needs = db.needs
    /\ pubkey = FALSE
    /\ reqs = make_requires_dict(sack, needs, FALSE)
    /\ rreqs = make_reversed_requires_dict(sack, needs)
    /\ memo = {"reqs", "rreqs"}
    /\ \E r \in Elems(all_rpms(sack, pubkey)), nrpms \in 1..MaxBudgetPr, es \in SUBSET Names :
          /\ query = [fn |-> "list_standalones_1_g", name |-> r, nrpms |-> nrpms,
                      excludes |-> es]
          /\ frames = <<[name |-> r, nrpms |-> nrpms, pc |-> "start", todo |-> <<>>]>>
    /\ result = {}
    /\ probe = "running"
    /\ yielded = <<>>
    /\ NoCallYet
    /\ NoTraversal

NextProbe == ProbeReject \/ ProbeYield \/ ProbeExpand \/ ProbeDescend \/ ProbeReturn

\* a generator that is being iterated keeps running
SpecProbe == InitProbe /\ [][NextProbe]_vars /\ WF_vars(NextProbe)

\* ------------------------------------------------- vocabulary of the claims
\* every package that requires a member of S, directly or through a chain
RECURSIVE RequirerClosure(_, _)
RequirerClosure(g, S) ==
    LET more == S \cup UNION {Get(g, q) : q \in S}
    IN  IF more = S THEN S ELSE RequirerClosure(g, more)

\* the dependent closure of p: all direct and transitive requirers of p
Dependents(g, p) == RequirerClosure(g, Get(g, p))

ClosedUnderRequiredBy(g, S) == \A x \in S : Get(g, x) \subseteq S

\* ------------------------------------------------------------------ claims
\* C1: the set compute_removed returns and the excludes the caller passed in
\* are disjoint.
C1_ResultAvoidsExcludes ==
    \A t \in Threads : pc[t] = "returned" => out[t] \cap ex_in[t] = {}

\* a call returned packages although it was given excludes and grew them
C1_Witness ==
    /\ pc[1] = "returned"
    /\ out[1] # {}
    /\ ex_in[1] # {}
    /\ own[1] # ex_in[1]

\* C2: an entry whose dependent closure meets the working excludes is vetoed:
\* the iteration that processes it leaves the accumulator and the collected result
\* alone, puts the entry and its whole dependent closure into the working
\* excludes and moves on to the next entry; a call whose only entry is vetoed
\* returns the empty set.
C2_VetoStep ==
    \A t \in Threads :
        (pc[t] = "loop" /\ idx[t] < Len(removes[t]) /\ idx'[t] # idx[t]
            /\ entry(t) \notin excludes(t)
            /\ Dependents(rreqs, entry(t)) \cap excludes(t) # {})
        => /\ d_acc' = d_acc
           /\ out' = out
           /\ ({entry(t)} \cup Dependents(rreqs, entry(t))) \subseteq
                  (IF exarg[t] = "default" THEN d_excludes' ELSE own'[t])
           /\ pc'[t] = "loop"
           /\ idx'[t] = idx[t] + 1

C2_SingleVetoEmpty ==
    \A t \in Threads :
        (pc[t] = "returned" /\ Len(removes[t]) = 1
            /\ removes[t][1] \notin ex_in[t]
            /\ Dependents(rreqs, removes[t][1]) \cap ex_in[t] # {})
        => out[t] = {}

C5_OnlyRequirers ==
    \A t \in Threads :
        (pc[t] = "returned" /\ acc_in[t] = {})
        => out[t] \subseteq RequirerClosure(rreqs, Elems(removes[t]))

\* a returned package requires a package that was not returned
C5_Witness ==
    /\ pc[1] = "returned"
    /\ acc_in[1] = {}
    /\ \E x \in out[1], y \in Pkgs \ out[1] : x \in Get(rreqs, y)

\* C7: after a call the caller's excludes holds exactly the elements it held
\* before the call (the removes argument is never written by any step).
C7_CallerExcludesUntouched ==
    \A t \in Threads :
        (pc[t] = "returned" /\ exarg[t] = "own") => own[t] = ex_in[t]

\* C8: a call made without acc and excludes arguments returns what the same
\* call returns as the first call of a fresh process.
C8_NoHiddenState ==
    \A t \in Threads :
        (pc[t] = "returned" /\ exarg[t] = "default")
        => out[t] = compute_removed(removes[t], rreqs, {}, {}).result

\* what C3 promises of removes rs: walk rs with ex growing only by each vetoed
\* entry and that entry's dependent closure; every entry outside ex whose
\* dependent closure avoids ex is owed together with its dependent closure
RECURSIVE Owed(_, _, _)
Owed(rs, g, ex) ==
    IF rs = <<>> THEN {}
    ELSE LET r == Head(rs)
             cl == {r} \cup Dependents(g, r)
         IN  IF r \in ex THEN Owed(Tail(rs), g, ex)
             ELSE IF cl \cap ex # {} THEN Owed(Tail(rs), g, ex \cup cl)
             ELSE cl \cup Owed(Tail(rs), g, ex)

\* C3: every unblocked entry is returned together with its dependent closure,
\* also after an earlier entry was vetoed.
C3_UnblockedAccepted ==
    \A t \in Threads :
        pc[t] = "returned" => Owed(removes[t], rreqs, ex_in[t]) \subseteq out[t]

\* C6 as stated: widening excludes never increases the size of the result
\* (both results computed from the same graph, entries and accumulator).
C6_MonotoneInExcludes ==
    \A t \in Threads :
        pc[t] = "returned" =>
            \A wider \in SUBSET DOMAIN rreqs :
                ex_in[t] \subseteq wider =>
                    Cardinality(compute_removed(removes[t], rreqs, acc_in[t], wider).result)
                        <= Cardinality(out[t])

\* C6 amended: when the call with the smaller excludes vetoes no entry (its
\* working excludes never grows), every wider excludes gives a subset of its
\* result, hence a result at most as large.
C6_MonotoneWithoutVeto ==
    \A t \in Threads :
        (pc[t] = "returned" /\ excludes(t) = ex_in[t]) =>
            \A wider \in SUBSET DOMAIN rreqs :
                ex_in[t] \subseteq wider =>
                    LET w == compute_removed(removes[t], rreqs, acc_in[t], wider).result
                    IN  w \subseteq out[t] /\ Cardinality(w) <= Cardinality(out[t])

\* no entry was vetoed with the given excludes, and some wider excludes
\* vetoes an entry and still returns a part of the result
C6_Witness ==
    /\ pc[1] = "returned"
    /\ exarg[1] = "own"
    /\ own[1] = ex_in[1]
    /\ Len(removes[1]) >= 2
    /\ \E wider \in SUBSET DOMAIN rreqs :
          /\ ex_in[1] \subseteq wider
          /\ compute_removed(removes[1], rreqs, acc_in[1], wider).result # {}
          /\ compute_removed(removes[1], rreqs, acc_in[1], wider).result # out[1]
          /\ compute_removed(removes[1], rreqs, acc_in[1], wider).excludes # wider

\* C9: each of two interleaved calls made without acc and excludes arguments
\* returns what it returns when it runs alone.
C9_InterleavingSafe ==
    \A t \in Threads :
        pc[t] = "returned"
        => out[t] = compute_removed(removes[t], rreqs, {}, {}).result

\* two calls on the default lists never see a non-empty excludes
ConcExcludesEmpty == d_excludes = {} /\ \A t \in Threads : exarg[t] = "default"

\* the stepwise traversal returns what the operator computes
TravMatchesOperator ==
    trav = "done" => ret = compute_removed_1(targ.remove, rreqs, targ.acc)

\* the depth bound of Descend is never what stops a call
DepthBoundUnused ==
    (trav = "running" /\ Top.todo # <<>>) => Len(stack) < MaxDepth

\* C10 as stated: every traversal returns, and no call is made on a package
\* that is already in the calling frame's accumulator.
C10_NoRevisitStep ==
    Len(stack') > Len(stack) => Head(Top.todo) \notin Top.acc

C10_TerminatesNeverRevisiting == <>(trav = "done") /\ [][C10_NoRevisitStep]_vars

\* C10 amended: every traversal returns; a call is made only on a package that
\* was outside the accumulator when the caller listed its requirers, and a
\* call on a package that a sibling's call has added since then finds no
\* requirer outside the accumulator and returns without a further call.
C10_ReentryStep ==
    (Len(stack') > Len(stack) /\ Head(Top.todo) \in Top.acc)
    => stack'[Len(stack')].todo = <<>>

C10_Terminates == <>(trav = "done") /\ [][C10_ReentryStep]_vars

\* a traversal over a requirement cycle has returned
C10_Witness ==
    /\ trav = "done"
    /\ targ.remove \in Dependents(rreqs, targ.remove)
    /\ targ.remove \notin Get(rreqs, targ.remove)
    /\ targ.acc = {targ.remove}

\* ------------------------------------------------ claims on the queries
\* requiredByOf(g, name) and requiresOf(g, name): the lookups in the built dicts
requiredByOf(name) == Elems(GetList(rreqs, name))

requiresOf(name) == Elems(GetList(reqs, name))

\* allNames: the names in the RPM database
allNames == Elems(all_rpms(sack, pubkey))

\* C11: every name get_leaves returns is an installed name whose requiredBy
\* list is empty; a name that requires itself is not returned.
C11_LeavesSound ==
    query.fn = "get_leaves" =>
        /\ result \subseteq allNames
        /\ \A n \in result : requiredByOf(n) = {} /\ n \notin requiredByOf(n)

\* leaves were returned while a name that only itself requires was not
C11_Witness ==
    /\ query.fn = "get_leaves"
    /\ result # {}
    /\ \E n \in allNames \ result : requiredByOf(n) = {n}

\* C12: get_leaves returns every installed name that no package requires,
\* also a name the reversed requires dict has no key for.
C12_LeavesComplete ==
    query.fn = "get_leaves" =>
        \A n \in allNames : requiredByOf(n) = {} => n \in result

\* C13: with nrpms = 1 list_standalones returns exactly the installed names
\* that are not excluded, that nothing requires and that require nothing.
C13_IsolatedOnly ==
    (query.fn = "list_standalones" /\ query.nrpms = 1) =>
        Elems(result) = {n \in allNames :
                            /\ n \notin query.excludes
                            /\ requiredByOf(n) = {}
                            /\ requiresOf(n) = {}}

\* an isolated name was returned, another isolated name was excluded and a
\* name that nothing requires but that requires a package was left out
C13_Witness ==
    /\ query.fn = "list_standalones"
    /\ query.nrpms = 1
    /\ result # <<>>
    /\ \E n \in allNames \cap query.excludes : requiredByOf(n) = {} /\ requiresOf(n) = {}
    /\ \E n \in allNames \ query.excludes : requiredByOf(n) = {} /\ requiresOf(n) # {}

\* a name that is not excluded and has no excluded requirer
Unblocked(n, es) == n \notin es /\ requiredByOf(n) \cap es = {}

\* the names reached from the names of S through requirer hops on which
\* every name (S included) is unblocked
RECURSIVE UnblockedReach(_, _)
UnblockedReach(S, es) ==
    LET ok == {n \in S : Unblocked(n, es)}
        more == ok \cup {p \in UNION {requiredByOf(n) : n \in ok} : Unblocked(p, es)}
    IN  IF more = S THEN S ELSE UnblockedReach(more, es)

\* C14: list_standalones returns no excluded name, and every name the probe
\* started at a candidate yields is reached from that candidate through
\* requirer hops on which no name and no requirer of a name is excluded.
C14_HonoursExcludes ==
    query.fn = "list_standalones" =>
        /\ Elems(result) \cap query.excludes = {}
        /\ Elems(result) \subseteq UnblockedReach(allNames, query.excludes)
        /\ \A n \in allNames :
              Elems(list_standalones_1_g(n, reqs, rreqs, query.nrpms, query.excludes))
                  \subseteq UnblockedReach({n}, query.excludes)

\* names were returned while the exclusion of a requirer cut the probe of a
\* candidate that is not excluded itself and yields a name without it
C14_Witness ==
    /\ query.fn = "list_standalones"
    /\ result # <<>>
    /\ \E m \in allNames \ query.excludes :
          /\ requiredByOf(m) \cap query.excludes # {}
          /\ list_standalones_1_g(m, reqs, rreqs, query.nrpms, {}) # <<>>
          /\ list_standalones_1_g(m, reqs, rreqs, query.nrpms, query.excludes) = <<>>

\* the stepwise probe yields what the operator list_standalones_1_g yields
ProbeMatchesOperator ==
    (query.fn = "list_standalones_1_g" /\ probe = "done") =>
        yielded = list_standalones_1_g(query.name, reqs, rreqs, query.nrpms, query.excludes)

\* C15: a step that makes a recursive probe call gives it a budget 1 smaller
\* than its caller's, and only when the caller's name has at least 1 and
\* fewer than budget requirers ...
C15_BudgetStep ==
    Len(frames') = Len(frames) + 1 =>
        /\ frames'[Len(frames')].nrpms = Probing.nrpms - 1
        /\ 1 <= Len(GetList(rreqs, Probing.name))
        /\ Len(GetList(rreqs, Probing.name)) < Probing.nrpms

\* ... so fewer than nrpms calls are nested inside the first one ...
C15_DepthBelowBudget ==
    probe = "running" => Len(frames) - 1 < query.nrpms

\* ... and the probe ends on every graph, cycles and self-edges included,
\* although it keeps no visited set.
C15_ProbeTerminates ==
    /\ <>(probe = "done")
    /\ [][C15_BudgetStep]_vars
    /\ []C15_DepthBelowBudget

\* the probe is nested three deep inside a requirement cycle: the innermost
\* call is for a name an enclosing call is for
C15_Witness ==
    /\ probe = "running"
    /\ Len(frames) = 3
    /\ \E k \in 1..2 : frames[k].name = frames[3].name

\* C16: list_required_rpms_not_required_by_others returns the empty list
\* whenever the requiredBy list of the target is not empty.
C16_NonLeafEmpty ==
    (query.fn = "list_required_rpms_not_required_by_others"
        /\ requiredByOf(query.rpmname) # {})
    => result = {}

\* C17: every requirer of a member of a non-empty result of
\* list_required_rpms_not_required_by_others is a member of the result.
C17_RequirersInside ==
    (query.fn = "list_required_rpms_not_required_by_others" /\ result # {})
    => \A m \in result : requiredByOf(m) \subseteq result

\* on a graph with a requirement cycle the target was returned with a
\* package it requires, while another package it requires was left out
C17_Witness ==
    /\ query.fn = "list_required_rpms_not_required_by_others"
    /\ Cardinality(result) >= 2
    /\ requiresOf(query.rpmname) \ result # {}
    /\ \E n \in allNames : n \in requiredByOf(n)

\* the names reached from the names of S through requires edges, S included
RECURSIVE RequiresReach(_)
RequiresReach(S) ==
    LET more == S \cup UNION {requiresOf(n) : n \in S}
    IN  IF more = S THEN S ELSE RequiresReach(more)

\* C18: for a target that nothing requires, the result of
\* list_required_rpms_not_required_by_others cannot be enlarged by packages
\* the target transitively requires so that every requirer of every member
\* is still a member.
C18_Maximal ==
    (query.fn = "list_required_rpms_not_required_by_others"
        /\ requiredByOf(query.rpmname) = {})
    => \A B \in SUBSET RequiresReach({query.rpmname}) :
          (result \subseteq B /\ \A m \in B : requiredByOf(m) \subseteq B) => B = result

\* C19: once both dicts are built, b is in the requires list of a exactly
\* when a is in the requiredBy list of b, self-edges included.
C19_ExactInverses ==
    memo = {"reqs", "rreqs"} =>
        \A a \in Names, b \in Names : (b \in requiresOf(a)) <=> (a \in requiredByOf(b))

\* the edges "a requires b" of the input, by name
InputEdges == {<<sack[x[1]], sack[x[2]]>> : x \in needs}

\* C20: for every input edge "a requires b", after the build a is in the
\* requiredBy list of b and b is not in the requiredBy list of a.
C20_RoundTrip ==
    memo = {"reqs", "rreqs"} =>
        \A e \in InputEdges : e[1] \in requiredByOf(e[2]) /\ e[2] \notin requiredByOf(e[1])

\* ------------------------------------------ package records and versions
\* (normalize_epoch .. find_updates_g, lines 64-111 and 275-459)
\* The bounds of this part: the characters an epoch string is made of (a
\* digit is "0" or "1", "x" stands for any other printable character, as in
\* "(none)"), and the longest epoch string
Chars == {"0", "1", "x", " "}

Digits == {"0", "1"}

MaxEpochLen == 3

\* names, versions, releases and archs of package dicts; versions and
\* releases are numbered in the order rpm's label comparison gives them
PkgNames == {1, 2}

Versions == {1, 2}

Releases == {1, 2}

Archs == {"x86_64", "i686"}

\* the longest list given to find_latest, group_by_names_g and find_latests
MaxPackages == 3

\* the longest lists given to find_updates_g
MaxInstalled == 2

MaxAvailable == 2

\* Python values an epoch can be: None, an int or a str
None == [t |-> "None"]

PyInt(n) == [t |-> "int", v |-> n]

PyStr(s) == [t |-> "str", s |-> s]

\* a call either returns a value or raises
Returned(v) == [raised |-> "no", value |-> v]

Raised(e) == [raised |-> e]

Front(s) == SubSeq(s, 1, Len(s) - 1)

Last(s) == s[Len(s)]

\* str.strip() as int() applies it
RECURSIVE lstrip(_), rstrip(_)
lstrip(s) == IF s # <<>> /\ Head(s) = " " THEN lstrip(Tail(s)) ELSE s

rstrip(s) == IF s # <<>> /\ Last(s) = " " THEN rstrip(Front(s)) ELSE s

\* the number a string of digits denotes
RECURSIVE digits_value(_)
digits_value(s) ==
    IF s = <<>> THEN 0
    ELSE 10 * digits_value(Front(s)) + (IF Last(s) = "1" THEN 1 ELSE 0)

\* int(s) of a str: blanks around the digits are dropped, anything else
\* than digits is a ValueError
int(s) ==
    LET body == rstrip(lstrip(s))
    IN  IF body # <<>> /\ \A k \in 1..Len(body) : body[k] \in Digits
        THEN Returned(digits_value(body))
        ELSE Raised("ValueError")

\* re.match(r".*(\d+).*", s): some character of s is a digit
re_match_digits(s) == \E k \in 1..Len(s) : s[k] \in Digits

normalize_arch(arch) == IF arch = "(none)" THEN "noarch" ELSE arch

normalize_epoch(epoch) ==
    IF epoch.t = "None" THEN Returned(0)
    ELSE IF epoch.t = "str"
         THEN IF re_match_digits(epoch.s) THEN int(epoch.s) ELSE Returned(0)
         ELSE IF epoch.t = "int" THEN Returned(epoch.v)
              ELSE Raised("AssertionError")

\* normalize(p): p with its arch and epoch replaced, or what normalize_epoch
\* raised
normalize(p) ==
    LET e == normalize_epoch(p.epoch)
    IN  IF e.raised # "no" THEN e
        ELSE Returned([p EXCEPT !.arch = normalize_arch(p.arch), !.epoch = PyInt(e.value)])

\* the package dicts over the given field values
Packages(ns, es, vs, rs, as) == [name : ns, epoch : es, version : vs, release : rs, arch : as]

\* the epochs of RPM headers (h2nvrea, lines 114-119): None or an int
HeaderEpochs == {None, PyInt(0), PyInt(1)}

cmp(a, b) == IF a < b THEN -1 ELSE IF a > b THEN 1 ELSE 0

\* yum.compareEVR((e1, v1, r1), (e2, v2, r2)): an epoch of None counts as 0,
\* then epoch, version and release are compared in this order
compareEVR(x, y) ==
    LET e(z) == IF z[1].t = "None" THEN 0 ELSE z[1].v
    IN  IF cmp(e(x), e(y)) # 0 THEN cmp(e(x), e(y))
        ELSE IF cmp(x[2], y[2]) # 0 THEN cmp(x[2], y[2])
        ELSE cmp(x[3], y[3])

p2evr(p) == <<p.epoch, p.version, p.release>>

\* a comparison that also orders the archs
pcmp_by_arch(p1, p2) ==
    IF p1.name # p2.name THEN Raised("AssertionError")
    ELSE IF compareEVR(p2evr(p1), p2evr(p2)) # 0
         THEN Returned(compareEVR(p2evr(p1), p2evr(p2)))
         ELSE Returned(IF p1.arch = p2.arch THEN 0 ELSE IF p1.arch = "x86_64" THEN 1 ELSE -1)

pcmp(p1, p2) ==
    IF p1.name # p2.name THEN Raised("AssertionError")
    ELSE Returned(compareEVR(p2evr(p1), p2evr(p2)))

\* sorted(packages, cmp=pcmp) of packages of one name: a stable sort, each
\* element in turn put behind the last one that is not greater
RECURSIVE insert_by_pcmp(_, _), sorted_by_pcmp(_)
insert_by_pcmp(s, x) ==
    IF s = <<>> THEN <<x>>
    ELSE IF pcmp(Last(s), x).value <= 0 THEN Append(s, x)
    ELSE Append(insert_by_pcmp(Front(s), x), Last(s))

sorted_by_pcmp(s) ==
    IF s = <<>> THEN <<>> ELSE insert_by_pcmp(sorted_by_pcmp(Front(s)), Last(s))

\* the first of the greatest elements in place of the last
find_latest_first(packages) ==
    IF packages = <<>> THEN Raised("AssertionError")
    ELSE IF \E i, j \in 1..Len(packages) : packages[i].name # packages[j].name
         THEN Raised("AssertionError")
         ELSE LET greatest == {k \in 1..Len(packages) :
                                  \A j \in 1..Len(packages) :
                                      pcmp(packages[k], packages[j]).value >= 0}
              IN  Returned(packages[CHOOSE k \in greatest : \A m \in greatest : k <= m])

\* find_latest(packages): the assertion of line 321 on an empty list; the
\* sort compares every element with an earlier one, so the assertion of pcmp
\* is raised as soon as two names differ
find_latest(packages) ==
    IF packages = <<>> THEN Raised("AssertionError")
    ELSE IF \E i, j \in 1..Len(packages) : packages[i].name # packages[j].name
         THEN Raised("AssertionError")
         ELSE Returned(Last(sorted_by_pcmp(packages)))

\* itemgetter(*keys)(p), always as a tuple
itemgetter(keys, p) == [k \in 1..Len(keys) |-> p[keys[k]]]

\* the order of Python on tuples of ints
RECURSIVE tuple_le(_, _)
tuple_le(a, b) ==
    IF a = <<>> THEN TRUE
    ELSE IF b = <<>> THEN FALSE
    ELSE IF Head(a) # Head(b) THEN Head(a) < Head(b)
    ELSE tuple_le(Tail(a), Tail(b))

\* sorted(xs, key=itemgetter(*keys)): a stable sort
RECURSIVE insert_by_keys(_, _, _), sorted_by_keys(_, _)
insert_by_keys(s, x, keys) ==
    IF s = <<>> THEN <<x>>
    ELSE IF tuple_le(itemgetter(keys, Last(s)), itemgetter(keys, x)) THEN Append(s, x)
    ELSE Append(insert_by_keys(Front(s), x, keys), Last(s))

sorted_by_keys(s, keys) ==
    IF s = <<>> THEN <<>>
    ELSE insert_by_keys(sorted_by_keys(Front(s), keys), Last(s), keys)

\* itertools.groupby(xs, itemgetter(*keys)): a new group starts wherever the
\* key differs from the key of the element before
RECURSIVE groupby(_, _)
groupby(s, keys) ==
    IF s = <<>> THEN <<>>
    ELSE LET before == groupby(Front(s), keys)
             k == itemgetter(keys, Last(s))
         IN  IF before # <<>> /\ Last(before).key = k
             THEN Append(Front(before), [key |-> k, group |-> Append(Last(before).group, Last(s))])
             ELSE Append(before, [key |-> k, group |-> <<Last(s)>>])

sort_by_names(s) == sorted_by_keys(s, <<"name">>)

\* a sort by name and version in place of the sort by name
group_by_names_g_resorted(s) == groupby(sorted_by_keys(s, <<"name", "version">>), <<"name">>)

\* group_by_names_g(xs): the pairs it yields, in the order it yields them
group_by_names_g(s) == groupby(sort_by_names(s), <<"name">>)

\* grouping by keys without the sort
group_by_keys_g_unsorted(s, keys) == groupby(s, keys)

group_by_keys_g(s, keys) == groupby(sorted_by_keys(s, keys), keys)

\* the latest of the whole list, once per group
find_latests_ungrouped(packages, keys) ==
    LET gs == group_by_keys_g(packages, keys)
        ls == [k \in 1..Len(gs) |-> find_latest(packages)]
    IN  IF \E k \in 1..Len(gs) : ls[k].raised # "no"
        THEN Raised("AssertionError")
        ELSE Returned([k \in 1..Len(gs) |-> ls[k].value])

\* find_latests(packages, keys): the list of the latest of every group, or
\* the first exception find_latest raised
find_latests(packages, keys) ==
    LET gs == group_by_keys_g(packages, keys)
        ls == [k \in 1..Len(gs) |-> find_latest(gs[k].group)]
    IN  IF \E k \in 1..Len(gs) : ls[k].raised # "no"
        THEN Raised("AssertionError")
        ELSE Returned([k \in 1..Len(gs) |-> ls[k].value])

\* list_to_dict_keyed_by_names(xs): dict() of the pairs, a later pair
\* replacing an earlier one of the same name
list_to_dict_keyed_by_names(s) ==
    LET gs == group_by_names_g(s)
        last(n) == CHOOSE k \in 1..Len(gs) :
                       /\ gs[k].key[1] = n
                       /\ \A m \in 1..Len(gs) : gs[m].key[1] = n => m <= k
    IN  [n \in {gs[k].key[1] : k \in 1..Len(gs)} |-> gs[last(n)].group]

\* the order of Python 2 on dicts of the same keys: by the value of the
\* smallest key whose values differ, the keys being arch, epoch, name,
\* release, version in this order
arch_rank(arch) ==
    IF arch = "(none)" THEN 0 ELSE IF arch = "i686" THEN 1 ELSE IF arch = "noarch" THEN 2 ELSE 3

dict_key(p) == <<arch_rank(p.arch), p.epoch.v, p.name, p.release, p.version>>

\* sorted(updates)
RECURSIVE insert_dict(_, _), sorted_dicts(_)
insert_dict(s, x) ==
    IF s = <<>> THEN <<x>>
    ELSE IF tuple_le(dict_key(Last(s)), dict_key(x)) THEN Append(s, x)
    ELSE Append(insert_dict(Front(s), x), Last(s))

sorted_dicts(s) == IF s = <<>> THEN <<>> ELSE insert_dict(sorted_dicts(Front(s)), Last(s))

is_newer(p1, p2) == pcmp(p1, p2).value > 0

\* one round of the loop of find_updates_g (lines 445-459) for the installed
\* package p: nothing, a list of updates, or what normalize raised
RECURSIVE normalize_each(_)
normalize_each(cs) ==
    IF cs = <<>> THEN Returned(<<>>)
    ELSE LET before == normalize_each(Front(cs))
             c == normalize(Last(cs))
         IN  IF before.raised # "no" THEN before
             ELSE IF c.raised # "no" THEN c
             ELSE Returned(Append(before.value, c.value))

\* updates that are not older
updates_of_not_older(p, ref_packages) ==
    LET cs == normalize_each(GetList(ref_packages, p.name))
    IN  IF cs.raised # "no" THEN cs
        ELSE Returned(sorted_dicts(SelectSeq(cs.value, LAMBDA c : pcmp(c, p).value >= 0)))

updates_of(p, ref_packages) ==
    LET cs == normalize_each(GetList(ref_packages, p.name))
    IN  IF cs.raised # "no" THEN cs
        ELSE Returned(sorted_dicts(SelectSeq(cs.value, LAMBDA c : is_newer(c, p))))

\* find_updates_g(all_packages, packages): the lists it yields, and the
\* exception that ended it, if any
RECURSIVE find_updates_from(_, _)
find_updates_from(ps, ref_packages) ==
    IF ps = <<>> THEN Returned(<<>>)
    ELSE LET before == find_updates_from(Front(ps), ref_packages)
             updates == updates_of(Last(ps), ref_packages)
         IN  IF before.raised # "no" THEN before
             ELSE IF updates.raised # "no"
                  THEN [raised |-> updates.raised, value |-> before.value]
             ELSE IF updates.value = <<>> THEN before
             ELSE Returned(Append(before.value, updates.value))

find_updates_g(all_packages, packages) ==
    find_updates_from(find_latests(packages, <<"name">>).value,
                      list_to_dict_keyed_by_names(all_packages))

\* what normalize_epoch is called on
EpochInputs ==
    {None} \cup {PyInt(n) : n \in {0, 1}}
           \cup {PyStr(s) : s \in SeqsUpTo(Chars, MaxEpochLen)}

\* the dicts pcmp is called on
Comparables == Packages(PkgNames, HeaderEpochs, Versions, Releases, Archs)

\* the dicts of the lists given to find_latest, group_by_names_g and
\* find_latests
Listed ==
    {p \in Packages(PkgNames, {None, PyInt(1)}, Versions, {1}, Archs) :
        p.epoch = None \/ p.version = 1}

\* installed packages, read from RPM headers, and the packages available to
\* them, whose epoch and arch are strings that normalize() replaces
Installed ==
    {p \in Packages(PkgNames, {None, PyInt(1)}, Versions, {1}, {"x86_64"}) :
        p.epoch = None \/ p.version = 1}

Available ==
    {p \in Packages(PkgNames, {PyStr(<<" ">>), PyStr(<<"1">>)}, Versions, {1}, {"(none)"}) :
        p.epoch = PyStr(<<" ">>) \/ p.version = 1}

\* the values of `keys` find_latests is called with: its default, and one
\* that does not hold the name
Keys == {<<"name">>, <<"version">>}

\* The functions read no package database and keep no state: a call leaves
\* everything but its own record alone.
NormalizeEpoch(epoch) ==
    /\ query' = [fn |-> "normalize_epoch", epoch |-> epoch]
    /\ result' = normalize_epoch(epoch)
    /\ UNCHANGED <<rreqs, dbvars, reqs, memo, probevars, callvars, travvars>>

Pcmp(p1, p2) ==
    /\ query' = [fn |-> "pcmp", p1 |-> p1, p2 |-> p2]
    /\ result' = pcmp(p1, p2)
    /\ UNCHANGED <<rreqs, dbvars, reqs, memo, probevars, callvars, travvars>>

FindLatest(packages) ==
    /\ query' = [fn |-> "find_latest", packages |-> packages]
    /\ result' = find_latest(packages)
    /\ UNCHANGED <<rreqs, dbvars, reqs, memo, probevars, callvars, travvars>>

GroupByNames(s) ==
    /\ query' = [fn |-> "group_by_names_g", xs |-> s]
    /\ result' = group_by_names_g(s)
    /\ UNCHANGED <<rreqs, dbvars, reqs, memo, probevars, callvars, travvars>>

FindLatests(packages, keys) ==
    /\ query' = [fn |-> "find_latests", packages |-> packages, keys |-> keys]
    /\ result' = find_latests(packages, keys)
    /\ UNCHANGED <<rreqs, dbvars, reqs, memo, probevars, callvars, travvars>>

FindUpdates(all_packages, packages) ==
    /\ query' = [fn |-> "find_updates_g", all_packages |-> all_packages,
                 packages |-> packages]
    /\ result' = find_updates_g(all_packages, packages)
    /\ UNCHANGED <<rreqs, dbvars, reqs, memo, probevars, callvars, travvars>>

\* a process that has imported the module and called nothing yet
InitPkg ==
    /\ rreqs = <<>>
    /\ NoCallYet
    /\ NoTraversal
    /\ NoDatabase

\* one call in a fresh process
NextPkg ==
    \/ query.fn = "none" /\ \E epoch \in EpochInputs : NormalizeEpoch(epoch)
    \/ query.fn = "none" /\ \E p1, p2 \in Comparables : Pcmp(p1, p2)
    \/ query.fn = "none" /\ \E packages \in SeqsUpTo(Listed, MaxPackages) :
                               FindLatest(packages)
    \/ query.fn = "none" /\ \E s \in SeqsUpTo(Listed, MaxPackages) : GroupByNames(s)
    \/ query.fn = "none" /\ \E packages \in SeqsUpTo(Listed, MaxPackages), keys \in Keys :
                               FindLatests(packages, keys)
    \/ query.fn = "none" /\ \E all_packages \in SeqsUpTo(Available, MaxAvailable),
                               packages \in SeqsUpTo(Installed, MaxInstalled) :
                               FindUpdates(all_packages, packages)

SpecPkg == InitPkg /\ [][NextPkg]_vars

\* ------------------------------------------------- claims C21 .. C30
\* a string that denotes no number: int() does not take it
NotANumber(epoch) == epoch.t = "str" /\ int(epoch.s).raised # "no"

\* C27: normalize_epoch returns a non-negative integer for every input: 0
\* for None and for a string that is not a number, also one mixing digits
\* with other characters, and the numeric value otherwise; it never fails on
\* a string.
C27_EpochTotal ==
    query.fn = "normalize_epoch" =>
        /\ result.raised = "no"
        /\ result.value >= 0
        /\ (query.epoch.t = "None" \/ NotANumber(query.epoch)) => result.value = 0
        /\ (query.epoch.t = "str" /\ ~NotANumber(query.epoch)) =>
               result.value = int(query.epoch.s).value
        /\ query.epoch.t = "int" => result.value = query.epoch.v

\* the (epoch, version, release) of a package, an absent epoch being 0
EVR(p) == <<IF p.epoch.t = "None" THEN 0 ELSE p.epoch.v, p.version, p.release>>

\* C23: on two packages of one name pcmp is antisymmetric and reflexive,
\* pcmp(a, b) = -pcmp(b, a) and pcmp(a, a) = 0; it orders them
\* lexicographically by (epoch, version, release) and ignores the arch.
C23_Antisymmetric ==
    (query.fn = "pcmp" /\ query.p1.name = query.p2.name) =>
        /\ result.raised = "no"
        /\ pcmp(query.p2, query.p1) = Returned(0 - result.value)
        /\ pcmp(query.p1, query.p1) = Returned(0)
        /\ result.value = (IF EVR(query.p1) = EVR(query.p2) THEN 0
                           ELSE IF tuple_le(EVR(query.p1), EVR(query.p2)) THEN -1 ELSE 1)
        /\ \A a1, a2 \in Archs :
               pcmp([query.p1 EXCEPT !.arch = a1], [query.p2 EXCEPT !.arch = a2]) = result

\* two packages that differ in arch only, and two whose epochs decide against
\* their versions
C23_Witness ==
    /\ query.fn = "pcmp"
    /\ query.p1.name = query.p2.name
    /\ \/ query.p1.arch # query.p2.arch /\ result = Returned(0)
       \/ /\ query.p1.version > query.p2.version
          /\ query.p1.epoch = None
          /\ query.p2.epoch = PyInt(1)
          /\ result = Returned(-1)

SameNamed(s) == \A i, j \in 1..Len(s) : s[i].name = s[j].name

\* the places of s whose package no package of s is newer than
Greatest(s) == {k \in 1..Len(s) : \A j \in 1..Len(s) : pcmp(s[k], s[j]).value >= 0}

\* C22: on a non-empty list of packages of one name find_latest returns an
\* element that is greater than or equal to every element, the last one of
\* the list when several are equal at the maximum, and so
\* find_latest([find_latest(xs)]) = find_latest(xs).
C22_LatestIsLastMaximum ==
    (query.fn = "find_latest" /\ query.packages # <<>> /\ SameNamed(query.packages)) =>
        /\ result.raised = "no"
        /\ \E k \in Greatest(query.packages) :
               /\ result.value = query.packages[k]
               /\ \A m \in Greatest(query.packages) : m <= k
        /\ find_latest(<<result.value>>) = result

\* three variants, the first and the last equal at the maximum and of
\* different archs
C22_Witness ==
    /\ query.fn = "find_latest"
    /\ Len(query.packages) = 3
    /\ SameNamed(query.packages)
    /\ Greatest(query.packages) = {1, 3}
    /\ query.packages[1].arch # query.packages[3].arch
    /\ result = Returned(query.packages[3])

\* C24: pcmp fails on two packages of different names and returns no
\* ordering; find_latest on packages of one name, find_latests and
\* find_updates_g never hand it two packages of different names, so its
\* assertion never ends them.
C24_NamesNeverMixed ==
    /\ query.fn = "pcmp" =>
           IF query.p1.name # query.p2.name
           THEN result = Raised("AssertionError")
           ELSE result.raised = "no"
    /\ (query.fn = "find_latest" /\ query.packages # <<>> /\ SameNamed(query.packages)) =>
           result.raised = "no"
    /\ (query.fn = "find_latests" /\ query.keys = <<"name">>) => result.raised = "no"
    /\ query.fn = "find_updates_g" => result.raised = "no"

\* a list of three packages of two names, whose variants of one name had to
\* be compared
C24_Witness ==
    /\ query.fn = "find_latests"
    /\ query.keys = <<"name">>
    /\ Len(query.packages) = 3
    /\ query.packages[1].name # query.packages[2].name
    /\ query.packages[1].name = query.packages[3].name
    /\ result.raised = "no"
    /\ Len(result.value) = 2

\* the packages of s that have the name n, in the order of s
Named(s, n) == SelectSeq(s, LAMBDA p : p.name = n)

NamesIn(s) == {s[k].name : k \in 1..Len(s)}

\* C25: find_latests returns exactly one entry for every name that occurs in
\* its input, and that entry is find_latest of the input packages of that
\* name.
C25_OneLatestPerName ==
    (query.fn = "find_latests" /\ query.keys = <<"name">>) =>
        /\ result.raised = "no"
        /\ Len(result.value) = Cardinality(NamesIn(query.packages))
        /\ \A n \in NamesIn(query.packages) :
               \E k \in 1..Len(result.value) :
                   /\ result.value[k] = find_latest(Named(query.packages, n)).value
                   /\ \A m \in 1..Len(result.value) : result.value[m].name = n => m = k

\* the variants of one name stand apart in the input, and the first of them
\* is the latest
C25_Witness ==
    /\ query.fn = "find_latests"
    /\ query.keys = <<"name">>
    /\ Len(query.packages) = 3
    /\ query.packages[1].name = query.packages[3].name
    /\ query.packages[2].name < query.packages[1].name
    /\ pcmp(query.packages[1], query.packages[3]).value > 0
    /\ result = Returned(<<query.packages[2], query.packages[1]>>)

\* the names of s in the order in which s first shows them
RECURSIVE FirstSeen(_)
FirstSeen(s) ==
    IF s = <<>> THEN <<>>
    ELSE IF Last(s).name \in NamesIn(Front(s)) THEN FirstSeen(Front(s))
    ELSE Append(FirstSeen(Front(s)), Last(s).name)

\* every record is in exactly one group, the group of its name, and the
\* records of a group stand in input order
StablePartition(s, gs) ==
    /\ \A n \in NamesIn(s) : \E k \in 1..Len(gs) :
           /\ gs[k] = [key |-> <<n>>, group |-> Named(s, n)]
           /\ \A m \in 1..Len(gs) : gs[m].key = <<n>> => m = k
    /\ \A k \in 1..Len(gs) : gs[k].key[1] \in NamesIn(s)

\* C26 as stated: group_by_names_g is a stable partition and does not sort
\* globally, the groups following the input's order of names.
C26_StableUnsorted ==
    query.fn = "group_by_names_g" =>
        /\ StablePartition(query.xs, result)
        /\ [k \in 1..Len(result) |-> result[k].key[1]] = FirstSeen(query.xs)

\* C26 amended: group_by_names_g is a stable partition whose groups are
\* yielded in ascending order of name.
C26_StableByName ==
    query.fn = "group_by_names_g" =>
        /\ StablePartition(query.xs, result)
        /\ \A k \in 1..(Len(result) - 1) : result[k].key[1] < result[k + 1].key[1]

\* the input starts with the greater name, and its two variants of that name
\* stand apart, the later one first
C26_Witness ==
    /\ query.fn = "group_by_names_g"
    /\ Len(query.xs) = 3
    /\ query.xs[1].name = query.xs[3].name
    /\ query.xs[2].name < query.xs[1].name
    /\ query.xs[1].version > query.xs[3].version
    /\ result = <<[key |-> <<query.xs[2].name>>, group |-> <<query.xs[2]>>],
                 [key |-> <<query.xs[1].name>>, group |-> <<query.xs[1], query.xs[3]>>]>>

Count(s, x) == Cardinality({k \in 1..Len(s) : s[k] = x})

\* the available packages of the name n that are strictly newer than the
\* latest installed variant of n, as normalize() leaves them
NewerThanLatest(all_packages, packages, n) ==
    LET latest == find_latest(Named(packages, n)).value
        cs == Named(all_packages, n)
    IN  SelectSeq([k \in 1..Len(cs) |-> normalize(cs[k]).value],
                  LAMBDA c : pcmp(c, latest).value > 0)

\* C21: find_updates_g yields at most one list per installed name; a list is
\* not empty and holds exactly the available packages of that name that
\* compare strictly greater than the latest installed variant of the name; a
\* name without such a package yields no list.
C21_UpdatesPerName ==
    query.fn = "find_updates_g" =>
        /\ result.raised = "no"
        /\ \A k \in 1..Len(result.value) :
               /\ result.value[k] # <<>>
               /\ \E n \in NamesIn(query.packages) :
                      \A m \in 1..Len(result.value[k]) : result.value[k][m].name = n
               /\ \A m \in 1..Len(result.value) :
                      result.value[m][1].name = result.value[k][1].name => m = k
        /\ \A n \in NamesIn(query.packages) :
               LET newer == NewerThanLatest(query.all_packages, query.packages, n)
               IN  IF newer = <<>>
                   THEN \A k \in 1..Len(result.value) : result.value[k][1].name # n
                   ELSE \E k \in 1..Len(result.value) :
                            /\ Len(result.value[k]) = Len(newer)
                            /\ \A c \in Elems(newer) :
                                   Count(result.value[k], c) = Count(newer, c)

\* two installed variants of one name, the latest first; one available
\* package is newer than the older variant only, another is newer than both
C21_Witness ==
    /\ query.fn = "find_updates_g"
    /\ Len(query.packages) = 2
    /\ Len(query.all_packages) = 2
    /\ SameNamed(query.packages \o query.all_packages)
    /\ pcmp(query.packages[1], query.packages[2]).value > 0
    /\ pcmp(normalize(query.all_packages[1]).value, query.packages[2]).value > 0
    /\ pcmp(normalize(query.all_packages[1]).value, query.packages[1]).value = 0
    /\ result = Returned(<<<<normalize(query.all_packages[2]).value>>>>)

\* the probe of the specification: as _list_standalones_1_g, but a name
\* without requirers is accepted iff it requires fewer than budget packages
RECURSIVE probe_of_spec(_, _, _, _, _), probe_of_spec_each(_, _, _, _, _)
probe_of_spec_each(ps, rq, rr, budget, es) ==
    IF ps = <<>> THEN {}
    ELSE probe_of_spec(Head(ps), rq, rr, budget - 1, es)
            \cup probe_of_spec_each(Tail(ps), rq, rr, budget, es)

probe_of_spec(name, rq, rr, budget, es) ==
    IF name \in es THEN {}
    ELSE LET requirers == GetList(rr, name)
         IN  IF requirers # <<>>
             THEN IF Elems(requirers) \cap es # {} THEN {}
                  ELSE IF Len(requirers) >= budget THEN {}
                  ELSE probe_of_spec_each(requirers, rq, rr, budget, es)
             ELSE IF Len(GetList(rq, name)) < budget THEN {name} ELSE {}

\* C28: for a budget of 1 or more the probe of the code, which accepts a
\* name without requirers when it requires nothing or fewer than budget
\* packages, yields the names the probe of the specification yields, which
\* accepts it iff it requires fewer than budget packages: every call of the
\* recursion has a budget of 1 or more, where the two tests agree.
C28_SameAsSpecProbe ==
    /\ \A k \in 1..Len(frames) : frames[k].nrpms >= 1
    /\ (probe = "running" /\ Probing.pc = "start") =>
           LET qs == GetList(reqs, Probing.name)
           IN  (qs = <<>> \/ Len(qs) < Probing.nrpms) <=> (Len(qs) < Probing.nrpms)
    /\ (query.fn = "list_standalones_1_g" /\ probe = "done") =>
           Elems(yielded) = probe_of_spec(query.name, reqs, rreqs, query.nrpms, query.excludes)

\* the probe went up to a requirer and accepted it, although it requires a
\* package: it requires fewer than the budget left
C28_Witness ==
    /\ probe = "done"
    /\ Len(yielded) = 1
    /\ yielded[1] # query.name
    /\ GetList(reqs, yielded[1]) # <<>>
    /\ yielded[1] \in requiredByOf(query.name)

\* C29: a step that yields a name yields the name being probed, which no
\* package requires and which requires fewer packages than the budget less
\* the requirer hops taken to reach it ...
C29_YieldStep ==
    yielded' # yielded =>
        /\ yielded' = Append(yielded, Probing.name)
        /\ requiredByOf(Probing.name) = {}
        /\ Len(GetList(reqs, Probing.name)) < query.nrpms - (Len(frames) - 1)

\* ... so every name returned has no requirer and requires fewer than
\* maxDegree packages, and a name that has a requirer is never returned.
C29_YieldedAreLeaves ==
    \A n \in Elems(yielded) :
        /\ requiredByOf(n) = {}
        /\ Cardinality(requiresOf(n)) < query.nrpms

C29_OnlyLeavesWithFewRequirements == [][C29_YieldStep]_vars /\ []C29_YieldedAreLeaves

\* the probed name has a requirer and is not returned: its requirer, one hop
\* up and with a budget of 2 left, is
C29_Witness ==
    /\ probe = "done"
    /\ query.nrpms = 3
    /\ requiredByOf(query.name) # {}
    /\ yielded # <<>>
    /\ query.name \notin Elems(yielded)
    /\ \A n \in Elems(yielded) : Cardinality(requiresOf(n)) = 1

\* the set list_standalones returns on the database at hand
Standalones(nrpms, es) ==
    Elems(list_standalones(all_rpms(sack, pubkey), reqs, rreqs, nrpms, es))

\* C30: list_standalones is monotone in the budget and anti-monotone in the
\* excludes: what it returns with budget d it returns with budget d + 1, and
\* what it returns with a wider excludes set it returns with the narrower.
C30_Monotone ==
    query.fn = "list_standalones" =>
        /\ Elems(result) \subseteq Standalones(query.nrpms + 1, query.excludes)
        /\ \A wider \in SUBSET Names :
               query.excludes \subseteq wider =>
                   Standalones(query.nrpms, wider) \subseteq Elems(result)

\* a call that returns less than the call with one more of budget and more
\* than a call with one more excluded name
C30_Witness ==
    /\ query.fn = "list_standalones"
    /\ Elems(result) # Standalones(query.nrpms + 1, query.excludes)
    /\ \E e \in Names \ query.excludes :
           /\ Standalones(query.nrpms, query.excludes \cup {e}) # Elems(result)
           /\ Standalones(query.nrpms, query.excludes \cup {e}) # {}

====
